---- MODULE Spec2Model ----
(***************************************************************************)
(* Model of OperationsExtSchema (core/lib/storage, chain/operations_ext):   *)
(* the account-history page queries, the receipt queries and the filter     *)
(* index, over the tables executed_transactions,                            *)
(* executed_priority_operations, tx_filters and aggregate_operations.       *)
(*                                                                          *)
(* A SQL result whose ORDER BY leaves rows tied is modelled as the set of   *)
(* all row orders the ORDER BY admits; a query operator therefore yields    *)
(* the set of results the store may return, and an action picks one.        *)
(***************************************************************************)
EXTENDS Integers, Sequences, FiniteSets, TLC

\* ------------------------------------------------------------------ bounds
MaxEntries == 2      \* stored history entries (both tables together)
MaxBlock == 2        \* block numbers are 1 .. MaxBlock
MaxIndex == 1        \* block_index is 0 .. MaxIndex
MaxTime == 2         \* created_at is 1 .. MaxTime
MaxLimit == 2        \* page limits are 1 .. MaxLimit
MaxBatch == 1        \* batch ids are 1 .. MaxBatch
MaxToken == 1        \* token ids of the filter index are 0 .. MaxToken
\* params::MIN_NFT_TOKEN_ID, scaled down: token ids below it are fungible.
MIN_NFT_TOKEN_ID == 2
MaxBatchTxs == 3     \* stored transactions where batches are executed

Addresses == {"a1", "a2"}
Blocks == 1 .. MaxBlock
Indexes == 0 .. MaxIndex
Times == 1 .. MaxTime
Limits == 1 .. MaxLimit
Hashes == 1 .. MaxEntries
\* A hash that is never stored (MaxEntries + 1) serves as the unknown cursor.
UnknownHash == MaxEntries + 1
\* Either::Right(ApiEither "latest") of the cursor of get_account_transactions.
Latest == 0
\* Option<T>: None is the empty sequence, Some(x) is <<x>>.
None == << >>
Some(x) == <<x>>
\* Token ids of the filter entries.
Tokens == {0}
\* i32::MAX; it also stands for i64::MAX, which is beyond the integers of the
\* model checker: every stored block number is far below either.
I32_MAX == 2147483647
I64_MAX == I32_MAX

\* SearchDirection / PaginationDirection
Directions == {"Older", "Newer"}

VARIABLES
    executed_transactions,          \* table: rows of ordinary transactions
    executed_priority_operations,   \* table: rows of priority operations
    tx_filters,                     \* table: (address, token, tx_hash)
    aggregate_operations,           \* table: aggregated operations
    txs_batches_hashes,             \* table: (batch_id, batch_hash)
    mempool_txs,                    \* table: queued transactions of batches
    tokens_table,                   \* table tokens: (id, symbol)
    enrichment,                     \* a fetched history page and the loop over it
    res,                            \* what the last read operation returned
    seen,                           \* <<hash, read path>> reported verified so far
    pinned,                         \* a page query and the pages it admitted
    trav                            \* a traversal by successive Older pages

vars == << executed_transactions, executed_priority_operations, tx_filters,
           aggregate_operations, txs_batches_hashes, mempool_txs,
           tokens_table, enrichment, res, seen, pinned, trav >>

payloads == << tokens_table, enrichment >>

mempool == << txs_batches_hashes, mempool_txs >>

db == << executed_transactions, executed_priority_operations, tx_filters,
         aggregate_operations, mempool >>

\* --------------------------------------------------------------- helpers
Min(a, b) == IF a <= b THEN a ELSE b
Max(a, b) == IF a >= b THEN a ELSE b

SetMax(S) == CHOOSE x \in S : \A y \in S : y <= x

Range(s) == { s[n] : n \in 1 .. Len(s) }

\* LIMIT n / Iterator::take(n)
Take(s, n) == SubSeq(s, 1, Min(n, Len(s)))

\* x BETWEEN lo AND hi
Between(x, lo, hi) == lo <= x /\ x <= hi

\* Lexicographic comparison of order keys <<block_number, block_index>>.
KeyLess(k1, k2) == k1[1] < k2[1] \/ (k1[1] = k2[1] /\ k1[2] < k2[2])

\* ORDER BY: every sequence that lists the rows of S by ascending rank[row];
\* rows of equal rank come in either order.
RECURSIVE OrderBy(_, _)
OrderBy(S, rank) ==
    IF S = {} THEN { << >> }
    ELSE LET first == { x \in S : \A y \in S : rank[x] <= rank[y] }
         IN UNION { { <<x>> \o o : o \in OrderBy(S \ {x}, rank) } : x \in first }

\* slice::sort_by / Itertools::sorted_by: a stable sort by ascending rank(e).
RECURSIVE StableSort(_, _)
StableSort(s, rank) ==
    IF Len(s) = 0 THEN << >>
    ELSE LET n == CHOOSE n \in 1 .. Len(s) :
                      /\ \A m \in 1 .. Len(s) : rank[s[n]] <= rank[s[m]]
                      /\ \A m \in 1 .. (n - 1) : rank[s[m]] > rank[s[n]]
             rest == SubSeq(s, 1, n - 1) \o SubSeq(s, n + 1, Len(s))
         IN <<s[n]>> \o StableSort(rest, rank)

\* ------------------------------------------------------------- the store
AllEntries == executed_transactions \cup executed_priority_operations
StoredHashes == { e.tx_hash : e \in AllEntries }
StoredKeys == { <<e.block_number, e.block_index>> : e \in AllEntries }
NewHash == Cardinality(AllEntries) + 1

\* SELECT DISTINCT tx_hash FROM tx_filters WHERE address = $1
tx_hashes(address) == { f.tx_hash : f \in { g \in tx_filters : g.address = address } }

\* aggregate_operations INNER JOIN execute_aggregated_blocks_binding
\* WHERE confirmed = true: the blocks bound to a confirmed operation.
ConfirmedBlocks(action_type) ==
    UNION { op.from_block .. op.to_block :
            op \in { o \in aggregate_operations :
                       o.action_type = action_type /\ o.confirmed } }
aggr_exec == ConfirmedBlocks("ExecuteBlocks")
aggr_comm == ConfirmedBlocks("CommitBlocks")

\* OperationsSchema::get_stored_aggregated_operation(block, type): the stored
\* operation of that type whose range holds the block, as an Option.
get_stored_aggregated_operation(block_number, action_type) ==
    LET found == { o \in aggregate_operations :
                     /\ o.action_type = action_type
                     /\ o.from_block <= block_number
                     /\ block_number <= o.to_block }
    IN IF found = {} THEN None ELSE Some(CHOOSE o \in found : TRUE)

\* BlockSchema::get_last_verified_confirmed_block: the highest block of a
\* confirmed ExecuteBlocks operation, 0 when there is none.
get_last_verified_confirmed_block ==
    IF aggr_exec = {} THEN 0 ELSE SetMax(aggr_exec)


\* ------------------------------------------- get_account_transactions_history_from
\* Mutant of block_number_idx: the Older range is not closed by the cursor.
block_number_idx_open(tx_id, direction) ==
    IF direction = "Older" THEN <<0, I64_MAX>> ELSE <<tx_id[1] + 1, I64_MAX>>

\* (block_number_start_idx, block_number_end_idx)
block_number_idx(tx_id, direction) ==
    IF direction = "Older" THEN <<0, tx_id[1] - 1>> ELSE <<tx_id[1] + 1, I64_MAX>>

\* Mutant of tx_number_idx: the range keeps the cursor's own position.
tx_number_idx_inclusive(tx_id, direction) ==
    IF direction = "Older" THEN <<0, tx_id[2]>> ELSE <<tx_id[2], I32_MAX>>

\* (tx_number_start_idx, tx_number_end_idx)
tx_number_idx(tx_id, direction) ==
    IF direction = "Older" THEN <<0, tx_id[2] - 1>> ELSE <<tx_id[2] + 1, I32_MAX>>

\* block_number BETWEEN $3 AND $4
\*   or (block_number = $2 and block_index BETWEEN $5 AND $6)
history_from_where(e, tx_id, direction) ==
    LET b == block_number_idx(tx_id, direction)
        t == tx_number_idx(tx_id, direction)
    IN \/ Between(e.block_number, b[1], b[2])
       \/ (e.block_number = tx_id[1] /\ Between(e.block_index, t[1], t[2]))

\* The columns both halves of the UNION ALL select.  The hash column carries the
\* prefix that tells the two tables apart; a priority operation is identified
\* by its tx_hash here (eth_hash is one-to-one with it).
history_tx_row(e) ==
    [ tx_id |-> <<e.block_number, e.block_index>>,
      hash |-> <<"sync-tx:", e.tx_hash>>,
      pq_id |-> None,
      success |-> e.success,
      block_number |-> e.block_number,
      created_at |-> e.created_at ]

history_priority_op_row(e) ==
    [ tx_id |-> <<e.block_number, e.block_index>>,
      hash |-> <<"0x", e.tx_hash>>,
      pq_id |-> Some(e.priority_op_serialid),
      success |-> TRUE,
      block_number |-> e.block_number,
      created_at |-> e.created_at ]

\* order by block_number desc, created_at desc
history_order(rows) ==
    [ r \in rows |-> 0 - (r.block_number * (MaxTime + 1) + r.created_at) ]

\* Mutant of history_item: commited is read from the aggr_comm join.
history_item_commit_join(r) ==
    [ tx_id |-> r.tx_id,
      hash |-> r.hash,
      pq_id |-> r.pq_id,
      success |-> r.success,
      commited |-> r.block_number \in aggr_comm,
      verified |-> r.block_number \in aggr_exec,
      block_number |-> r.block_number,
      created_at |-> r.created_at ]

\* The outer select: true as "commited!", coalesce(verified.confirmed, false).
history_item(r) ==
    [ tx_id |-> r.tx_id,
      hash |-> r.hash,
      pq_id |-> r.pq_id,
      success |-> r.success,
      commited |-> TRUE,
      verified |-> r.block_number \in aggr_exec,
      block_number |-> r.block_number,
      created_at |-> r.created_at ]

\* The two halves of the UNION ALL, before order by / limit.
history_from_rows(address, tx_id, direction) ==
    { history_tx_row(e) :
        e \in { x \in executed_transactions :
                  /\ x.tx_hash \in tx_hashes(address)
                  /\ history_from_where(x, tx_id, direction) } }
    \cup
    { history_priority_op_row(e) :
        e \in { x \in executed_priority_operations :
                  /\ (x.from_account = address \/ x.to_account = address)
                  /\ history_from_where(x, tx_id, direction) } }

\* order by ... limit $7 of the inner select, then the outer order by.
history_page(rows, limit) ==
    UNION { LET items == { history_item(r) : r \in Range(Take(o, limit)) }
            IN OrderBy(items, history_order(items))
          : o \in OrderBy(rows, history_order(rows)) }

\* The pages the call may return.
get_account_transactions_history_from(address, tx_id, direction, limit) ==
    history_page(history_from_rows(address, tx_id, direction), limit)

\* ------------------------------------------------ get_account_transactions_history
\* offset $2 limit $3 of the inner select, then the outer order by.
\* Mutant of get_account_transactions_history: the offset is not applied.
get_account_transactions_history_no_offset(address, offset, limit) ==
    LET rows ==
            { history_tx_row(e) :
                e \in { x \in executed_transactions :
                          x.tx_hash \in tx_hashes(address) } }
            \cup
            { history_priority_op_row(e) :
                e \in { x \in executed_priority_operations :
                          x.from_account = address \/ x.to_account = address } }
    IN UNION { LET items == { history_item(r) :
                               r \in Range(SubSeq(o, 1, Min(limit, Len(o)))) }
               IN OrderBy(items, history_order(items))
             : o \in OrderBy(rows, history_order(rows)) }

get_account_transactions_history(address, offset, limit) ==
    LET rows ==
            { history_tx_row(e) :
                e \in { x \in executed_transactions :
                          x.tx_hash \in tx_hashes(address) } }
            \cup
            { history_priority_op_row(e) :
                e \in { x \in executed_priority_operations :
                          x.from_account = address \/ x.to_account = address } }
    IN UNION { LET items == { history_item(r) :
                               r \in Range(SubSeq(o, offset + 1,
                                                  Min(offset + limit, Len(o)))) }
               IN OrderBy(items, history_order(items))
             : o \in OrderBy(rows, history_order(rows)) }

\* --------------------------------------------------------- get_account_transactions
\* Returns created_at and block_number of the transaction with the given hash:
\* executed_transactions first, executed_priority_operations otherwise.
get_tx_created_at_and_block_number(tx_hash) ==
    LET record == { e \in executed_transactions : e.tx_hash = tx_hash }
        record2 == { e \in executed_priority_operations : e.tx_hash = tx_hash }
        pick(S) == LET e == CHOOSE e \in S : TRUE
                   IN Some(<<e.created_at, e.block_number>>)
    IN IF record # {} THEN pick(record)
       ELSE IF record2 # {} THEN pick(record2)
       ELSE None

\* Mutant of last_tx_order: the first entry of the address comes first.
last_tx_order_ascending(rows) ==
    [ r \in rows |-> r.created_at * (MaxIndex + 2) + r.block_index ]

\* ORDER BY created_at DESC, block_index DESC
last_tx_order(rows) ==
    [ r \in rows |-> 0 - (r.created_at * (MaxIndex + 2) + r.block_index) ]

\* The hashes get_account_last_tx_hash may return (None: no record).
get_account_last_tx_hash(address) ==
    LET cols(e) == [ tx_hash |-> e.tx_hash, created_at |-> e.created_at,
                     block_index |-> e.block_index ]
        joined(table) == { cols(e) : e \in { x \in table :
                                               x.tx_hash \in tx_hashes(address) } }
        limit1(rows) == { Range(Take(o, 1)) : o \in OrderBy(rows, last_tx_order(rows)) }
        everything == { t \cup p : t \in limit1(joined(executed_transactions)),
                                   p \in limit1(joined(executed_priority_operations)) }
    IN UNION { { IF Len(o) = 0 THEN None ELSE Some(o[1].tx_hash)
                 : o \in OrderBy(ev, last_tx_order(ev)) }
             : ev \in everything }

\* Mutant of query_direction_where: the comparisons are strict.
query_direction_where_strict(created_at, time_from, direction) ==
    IF direction = "Newer" THEN created_at > time_from ELSE created_at < time_from

\* "AND created_at >= $3" (Newer) / "AND created_at <= $3" (Older)
query_direction_where(created_at, time_from, direction) ==
    IF direction = "Newer" THEN created_at >= time_from ELSE created_at <= time_from

\* "ORDER BY created_at" (Newer) / "ORDER BY created_at DESC" (Older)
query_direction_order(rows, direction) ==
    [ r \in rows |-> IF direction = "Newer" THEN r.created_at ELSE 0 - r.created_at ]

\* "AND token = $2" when a token is given
token_query(f, token) == token = None \/ f.token = token[1]

\* The columns of a TransactionItem.
transaction_item(e, serialid) ==
    [ tx_hash |-> e.tx_hash,
      block_number |-> e.block_number,
      block_index |-> e.block_index,
      created_at |-> e.created_at,
      success |-> IF serialid = None THEN e.success ELSE TRUE,
      priority_op_serialid |-> serialid ]

\* SELECT DISTINCT ... FROM tx_filters INNER JOIN executed_transactions ...
get_executed_txs_for_account(address, token, limit, time_from, direction) ==
    LET rows == { transaction_item(e, None) :
                    e \in { x \in executed_transactions :
                              /\ \E f \in tx_filters :
                                    /\ f.tx_hash = x.tx_hash
                                    /\ f.address = address
                                    /\ token_query(f, token)
                              /\ query_direction_where(x.created_at, time_from,
                                                       direction) } }
    IN { Take(o, limit) : o \in OrderBy(rows, query_direction_order(rows, direction)) }

\* SELECT DISTINCT ... FROM tx_filters INNER JOIN executed_priority_operations ...
get_priority_operations_for_account(address, token, limit, time_from, direction) ==
    LET rows == { transaction_item(e, Some(e.priority_op_serialid)) :
                    e \in { x \in executed_priority_operations :
                              /\ \E f \in tx_filters :
                                    /\ f.tx_hash = x.tx_hash
                                    /\ f.address = address
                                    /\ token_query(f, token)
                              /\ query_direction_where(x.created_at, time_from,
                                                       direction) } }
    IN { Take(o, limit) : o \in OrderBy(rows, query_direction_order(rows, direction)) }

\* The query text of get_executed_transactions_for_two_accounts starts its
\* select list with "SECECT" and selects executed_transactions columns from a
\* join that does not name that table: the store rejects it, whatever the
\* arguments, and the call returns the error.
query_error == "error"
get_executed_transactions_for_two_accounts(address, second_address, token, limit, time_from, direction) ==
    query_error

\* Mutant of merge_txs: the appended vector is truncated without being sorted.
merge_txs_unsorted(txs, ops, direction, limit) ==
    Take(txs \o ops, limit)

\* txs.append(priority ops); sorted_by created_at (reversed for Older); take(limit)
merge_txs(txs, ops, direction, limit) ==
    LET all == txs \o ops
    IN Take(StableSort(all, query_direction_order(Range(all), direction)), limit)

\* TransactionItem::transaction_from_item(tx, is_block_finalized)
transaction_from_item(tx, is_block_finalized) ==
    [ tx_hash |-> tx.tx_hash,
      block_number |-> tx.block_number,
      block_index |-> tx.block_index,
      created_at |-> tx.created_at,
      success |-> tx.success,
      priority_op_serialid |-> tx.priority_op_serialid,
      finalized |-> is_block_finalized ]

\* raw_txs mapped with block_number <= last_finalized
\* Mutant of finalize_txs: the last verified block itself is not finalized.
finalize_txs_strict(raw_txs) ==
    LET last_finalized == get_last_verified_confirmed_block
    IN [ n \in 1 .. Len(raw_txs) |->
           transaction_from_item(raw_txs[n],
                                 raw_txs[n].block_number < last_finalized) ]

finalize_txs(raw_txs) ==
    LET last_finalized == get_last_verified_confirmed_block
    IN [ n \in 1 .. Len(raw_txs) |->
           transaction_from_item(raw_txs[n],
                                 raw_txs[n].block_number <= last_finalized) ]

\* The outcomes of a call: QueryResult<Option<Vec<Transaction>>>.
Err == [ ok |-> FALSE, some |-> FALSE, txs |-> << >> ]
OkNone == [ ok |-> TRUE, some |-> FALSE, txs |-> << >> ]
OkSome(txs) == [ ok |-> TRUE, some |-> TRUE, txs |-> txs ]

\* Mutant of account_transactions_from: a hash that is not stored gives the
\* empty page.
account_transactions_from_empty_page(address, tx_hash, second_address, token, direction, limit) ==
    LET created_at_and_block == get_tx_created_at_and_block_number(tx_hash)
        time_from == created_at_and_block[1][1]
    IN IF created_at_and_block = None THEN { OkSome(<< >>) }
       ELSE IF second_address # None
       THEN { Err }
       ELSE { OkSome(finalize_txs(merge_txs(txs, ops, direction, limit))) :
                txs \in get_executed_txs_for_account(address, token, limit,
                                                     time_from, direction),
                ops \in get_priority_operations_for_account(address, token, limit,
                                                            time_from, direction) }

\* The part of get_account_transactions after the cursor hash is known.
account_transactions_from(address, tx_hash, second_address, token, direction, limit) ==
    LET created_at_and_block == get_tx_created_at_and_block_number(tx_hash)
        time_from == created_at_and_block[1][1]
    IN IF created_at_and_block = None THEN { OkNone }
       ELSE IF second_address # None
       THEN LET raw_txs == get_executed_transactions_for_two_accounts(
                               address, second_address[1], token, limit, time_from,
                               direction)
            IN IF raw_txs = query_error THEN { Err }
               ELSE { OkSome(finalize_txs(raw_txs)) }
       ELSE { OkSome(finalize_txs(merge_txs(txs, ops, direction, limit))) :
                txs \in get_executed_txs_for_account(address, token, limit,
                                                     time_from, direction),
                ops \in get_priority_operations_for_account(address, token, limit,
                                                            time_from, direction) }

\* The outcomes get_account_transactions may return; `from` is a hash or Latest.
get_account_transactions(address, from, second_address, token, direction, limit) ==
    IF from = Latest
    THEN UNION { IF last = None THEN { OkSome(<< >>) }
                 ELSE account_transactions_from(address, last[1], second_address,
                                                token, direction, limit)
               : last \in get_account_last_tx_hash(address) }
    ELSE account_transactions_from(address, from, second_address, token,
                                   direction, limit)

\* ------------------------------------------------------- failing store queries
\* The store queries of the page operations; each is awaited with `?`.
PageQueries ==
    { "get_account_last_tx_hash", "get_tx_created_at_and_block_number",
      "get_executed_txs_for_account", "get_priority_operations_for_account",
      "get_last_verified_confirmed_block", "fetch_all", "load_tokens" }

\* Mutant of get_account_transactions_or_error: a failure of the priority
\* operations query is passed over and the transactions found are returned.
get_account_transactions_partial(address, from, second_address, token, direction, limit, failing) ==
    IF from = Latest /\ "get_account_last_tx_hash" \in failing THEN { Err }
    ELSE UNION {
           IF last = None THEN { OkSome(<< >>) }
           ELSE IF "get_tx_created_at_and_block_number" \in failing THEN { Err }
           ELSE IF get_tx_created_at_and_block_number(last[1]) = None THEN { OkNone }
           ELSE IF second_address # None THEN { Err }
           ELSE IF "get_executed_txs_for_account" \in failing THEN { Err }
           ELSE IF "get_priority_operations_for_account" \in failing
           THEN { OkSome(finalize_txs(txs)) :
                    txs \in get_executed_txs_for_account(
                                address, token, limit,
                                get_tx_created_at_and_block_number(last[1])[1][1],
                                direction) }
           ELSE IF "get_last_verified_confirmed_block" \in failing THEN { Err }
           ELSE account_transactions_from(address, last[1], second_address, token,
                                          direction, limit)
         : last \in IF from = Latest THEN get_account_last_tx_hash(address)
                    ELSE { Some(from) } }

\* get_account_transactions when the store queries named in `failing` fail:
\* the first one the call reaches returns its error through `?`.
get_account_transactions_or_error(address, from, second_address, token, direction, limit, failing) ==
    IF from = Latest /\ "get_account_last_tx_hash" \in failing THEN { Err }
    ELSE UNION {
           IF last = None THEN { OkSome(<< >>) }
           ELSE IF "get_tx_created_at_and_block_number" \in failing THEN { Err }
           ELSE IF get_tx_created_at_and_block_number(last[1]) = None THEN { OkNone }
           ELSE IF second_address # None THEN { Err }
           ELSE IF "get_executed_txs_for_account" \in failing THEN { Err }
           ELSE IF "get_priority_operations_for_account" \in failing THEN { Err }
           ELSE IF "get_last_verified_confirmed_block" \in failing THEN { Err }
           ELSE account_transactions_from(address, last[1], second_address, token,
                                          direction, limit)
         : last \in IF from = Latest THEN get_account_last_tx_hash(address)
                    ELSE { Some(from) } }

\* get_account_transactions_history_from when the page query or the token
\* table load fails; the token table is loaded for a page that is not empty.
get_account_transactions_history_from_or_error(address, tx_id, direction, limit, failing) ==
    IF "fetch_all" \in failing THEN { Err }
    ELSE { IF Len(page) # 0 /\ "load_tokens" \in failing THEN Err ELSE OkSome(page)
         : page \in get_account_transactions_history_from(address, tx_id, direction,
                                                          limit) }

\* ------------------------------------------------------------------- receipts
\* OperationsSchema::get_executed_operation(hash)
get_executed_operation(hash) ==
    LET found == { e \in executed_transactions : e.tx_hash = hash }
    IN IF found = {} THEN None ELSE Some(CHOOSE e \in found : TRUE)

\* OperationsSchema::get_executed_priority_operation(op_id)
get_executed_priority_operation(op_id) ==
    LET found == { e \in executed_priority_operations : e.priority_op_serialid = op_id }
    IN IF found = {} THEN None ELSE Some(CHOOSE e \in found : TRUE)

\* Mutant of confirmed_or_default: a stored operation counts as confirmed.
confirmed_or_default_stored(operation) == operation # None

\* .map(|operation| operation.confirmed).unwrap_or_default()
confirmed_or_default(operation) ==
    IF operation = None THEN FALSE ELSE operation[1].confirmed

\* Option<TxReceiptResponse>
tx_receipt(hash) ==
    LET tx == get_executed_operation(hash)
    IN IF tx # None
       THEN LET verified == confirmed_or_default(
                    get_stored_aggregated_operation(tx[1].block_number,
                                                    "ExecuteBlocks"))
            IN Some([ tx_hash |-> hash,
                      block_number |-> tx[1].block_number,
                      success |-> tx[1].success,
                      verified |-> verified ])
       ELSE None

\* Mutant of get_priority_op_receipt: an operation that is not stored is
\* reported as committed.
get_priority_op_receipt_committed(op_id) ==
    LET stored_executed_prior_op == get_executed_priority_operation(op_id)
    IN IF stored_executed_prior_op # None
       THEN LET verified == confirmed_or_default(
                    get_stored_aggregated_operation(
                        stored_executed_prior_op[1].block_number, "ExecuteBlocks"))
            IN [ committed |-> TRUE, verified |-> verified ]
       ELSE [ committed |-> TRUE, verified |-> FALSE ]

\* PriorityOpReceiptResponse
get_priority_op_receipt(op_id) ==
    LET stored_executed_prior_op == get_executed_priority_operation(op_id)
    IN IF stored_executed_prior_op # None
       THEN LET verified == confirmed_or_default(
                    get_stored_aggregated_operation(
                        stored_executed_prior_op[1].block_number, "ExecuteBlocks"))
            IN [ committed |-> TRUE, verified |-> verified ]
       ELSE [ committed |-> FALSE, verified |-> FALSE ]

\* ------------------------------------------------------------- the filter index
\* Mutant of get_account_transactions_count: the second address is not read.
get_account_transactions_count_one_address(address, token, second_address) ==
    Cardinality({ f.tx_hash : f \in { g \in tx_filters :
                                         /\ g.address = address
                                         /\ (token = None \/ g.token = token[1]) } })

\* WITH tx_hashes AS (SELECT DISTINCT ... INTERSECT SELECT DISTINCT ...)
\* SELECT COUNT(*) FROM tx_hashes
get_account_transactions_count(address, token, second_address) ==
    LET first == { f.tx_hash : f \in { g \in tx_filters :
                                          /\ g.address = address
                                          /\ (token = None \/ g.token = token[1]) } }
        second == { f.tx_hash : f \in { g \in tx_filters :
                                           \/ second_address = None
                                           \/ /\ g.address = second_address[1]
                                              /\ (token = None
                                                    \/ g.token = token[1]) } }
    IN Cardinality(first \cap second)

\* SELECT MAX(block_number) FROM tx_filters INNER JOIN <table>, 0 for NULL
max_filtered_block(table) ==
    LET joined == { e \in table : \E f \in tx_filters : f.tx_hash = e.tx_hash }
    IN IF joined = {} THEN 0 ELSE SetMax({ e.block_number : e \in joined })

\* std::cmp::max(max1, max2)
last_block_with_updated_tx_filters ==
    LET max1 == max_filtered_block(executed_transactions)
        max2 == max_filtered_block(executed_priority_operations)
    IN Max(max1, max2)

\* ------------------------------------------------------------------- batches
\* Batch hashes are a name space of their own: the hash of batch n is n, and
\* MaxBatch + 1 is the hash of no batch.
BatchIds == 1 .. MaxBatch
BatchHashes == 1 .. (MaxBatch + 1)

\* COALESCE(executed_transactions.batch_id, 0)
coalesce_batch_id(batch_id) == IF batch_id = None THEN 0 ELSE batch_id[1]

\* ORDER BY created_at ASC, block_index ASC
batch_data_order(rows) ==
    [ r \in rows |-> r.created_at * (MaxIndex + 2) + r.block_index ]

\* The rows the query of get_in_block_batch_info may return, in order.
in_block_batch_data(batch_hash) ==
    LET rows == { e \in executed_transactions :
                    \E b \in txs_batches_hashes :
                       /\ b.batch_id = coalesce_batch_id(e.batch_id)
                       /\ b.batch_hash = batch_hash }
    IN OrderBy(rows, batch_data_order(rows))

\* Mutant of batch_status: the two timestamps are exchanged.
batch_status_timestamps_exchanged(batch_data) ==
    LET created_at == batch_data[1].created_at
        op == get_stored_aggregated_operation(batch_data[1].block_number,
                                              "ExecuteBlocks")
    IN IF batch_data[1].success
       THEN IF op # None
            THEN [ updated_at |-> created_at, last_state |-> "Finalized" ]
            ELSE [ updated_at |-> created_at, last_state |-> "Committed" ]
       ELSE [ updated_at |-> created_at, last_state |-> "Rejected" ]

\* BatchStatus of a non-empty batch_data
batch_status(batch_data) ==
    LET created_at == batch_data[1].created_at
        op == get_stored_aggregated_operation(batch_data[1].block_number,
                                              "ExecuteBlocks")
    IN IF batch_data[1].success
       THEN IF op # None
            THEN [ updated_at |-> op[1].created_at, last_state |-> "Finalized" ]
            ELSE [ updated_at |-> created_at, last_state |-> "Committed" ]
       ELSE [ updated_at |-> created_at, last_state |-> "Rejected" ]

\* The results get_in_block_batch_info may return: Option<ApiTxBatch>.
get_in_block_batch_info(batch_hash) ==
    { IF Len(batch_data) # 0
      THEN Some([ batch_hash |-> batch_hash,
                  transaction_hashes |->
                      [ n \in 1 .. Len(batch_data) |-> batch_data[n].tx_hash ],
                  created_at |-> batch_data[1].created_at,
                  batch_status |-> batch_status(batch_data) ])
      ELSE None
    : batch_data \in in_block_batch_data(batch_hash) }

\* MempoolSchema::get_queued_batch_info: the batch as the mempool holds it,
\* with status Queued, when transactions of the batch are queued.
get_queued_batch_info(batch_hash) ==
    LET queued == { m \in mempool_txs :
                      \E b \in txs_batches_hashes :
                         b.batch_id = m.batch_id /\ b.batch_hash = batch_hash }
    IN IF queued = {} THEN None
       ELSE LET m == CHOOSE m \in queued : TRUE
            IN Some([ batch_hash |-> batch_hash,
                      transaction_hashes |-> << >>,
                      created_at |-> m.created_at,
                      batch_status |-> [ updated_at |-> m.created_at,
                                         last_state |-> "Queued" ] ])

\* Mutant of get_batch_info: the queued batch is looked up first.
get_batch_info_queued_first(batch_hash) ==
    { IF get_queued_batch_info(batch_hash) # None
      THEN get_queued_batch_info(batch_hash)
      ELSE batch_info
    : batch_info \in get_in_block_batch_info(batch_hash) }

\* The results get_batch_info may return.
get_batch_info(batch_hash) ==
    { IF batch_info # None
      THEN batch_info
      ELSE get_queued_batch_info(batch_hash)
    : batch_info \in get_in_block_batch_info(batch_hash) }

\* ------------------------------------------------------------------ payloads
\* serde_json::Value: a string, a number, or Null, which is also what indexing
\* a missing key gives.
JStr(s) == [ kind |-> "str", s |-> s, n |-> 0 ]
JNum(n) == [ kind |-> "num", s |-> "", n |-> n ]
JNull == [ kind |-> "null", s |-> "", n |-> 0 ]

\* Value::as_str().unwrap_or(default)
as_str_or(v, default) == IF v.kind = "str" THEN v.s ELSE default

\* Value::as_i64().unwrap_or(default)
as_i64_or(v, default) == IF v.kind = "num" THEN v.n ELSE default

\* The embedded "priority_op" object of a payload: absent, or an object with
\* its token field.
NoPriorityOp == [ present |-> FALSE, token |-> JNull ]
PriorityOpObject(token) == [ present |-> TRUE, token |-> token ]

\* Mutant of enrich_token: ids at or above the NFT threshold are looked up too.
enrich_token_no_threshold(tok_val, loaded) ==
    IF tok_val.kind = "num" /\ tok_val.n >= 0
    THEN IF \E t \in loaded : t.id = tok_val.n
         THEN JStr((CHOOSE t \in loaded : t.id = tok_val.n).symbol)
         ELSE JStr("UNKNOWN")
    ELSE tok_val

\* if let Some(token_id) = tok_val.as_u64() { ... }: the new value of a token
\* field, `loaded` being the token table as load_tokens returned it.
enrich_token(tok_val, loaded) ==
    IF tok_val.kind = "num" /\ tok_val.n >= 0
    THEN IF tok_val.n < MIN_NFT_TOKEN_ID
         THEN IF \E t \in loaded : t.id = tok_val.n
              THEN JStr((CHOOSE t \in loaded : t.id = tok_val.n).symbol)
              ELSE JStr("UNKNOWN")
         ELSE JNum(tok_val.n)
    ELSE tok_val

\* Mutant of enrich_item: an entry with no type tag is enriched at top level.
enrich_item_untyped(tx, loaded) ==
    LET type == as_str_or(tx.type, "NONE")
    IN IF type \in { "Deposit", "FullExit" }
       THEN IF tx.priority_op.present
            THEN [ tx EXCEPT !.priority_op.token = enrich_token(@, loaded) ]
            ELSE tx
       ELSE [ tx EXCEPT !.token = enrich_token(@, loaded) ]

\* The body of `for tx_item in &mut tx_history`: the payload after it.
enrich_item(tx, loaded) ==
    LET type == as_str_or(tx.type, "NONE")
    IN IF type = "NONE" THEN tx
       ELSE IF type \in { "Deposit", "FullExit" }
       THEN IF tx.priority_op.present
            THEN [ tx EXCEPT !.priority_op.token = enrich_token(@, loaded) ]
            ELSE tx
       ELSE [ tx EXCEPT !.token = enrich_token(@, loaded) ]

\* The outcome of a lookup that may abort: a panic, or Ok(value).
Panic == [ panic |-> TRUE, value |-> None ]
Done(value) == [ panic |-> FALSE, value |-> value ]

\* find_tx_by_hash: the fields of TxByHashResponse taken from the payload, for
\* the "Withdraw" | "Transfer" | "TransferToNew" arm and the default arm.
find_tx_by_hash(hash) ==
    LET query_result == get_executed_operation(hash)
    IN IF query_result = None THEN Done(None)
       ELSE LET operation == query_result[1].tx
                tx_type == as_str_or(operation.type, "unknown tx_type")
                tx_from == IF tx_type \in { "Withdraw", "Transfer", "TransferToNew" }
                           THEN as_str_or(operation.from, "unknown from")
                           ELSE "unknown from"
                tx_token == as_i64_or(operation.token, -1)
            IN Done(Some([ tx_type |-> IF tx_type = "TransferToNew"
                                       THEN "Transfer" ELSE tx_type,
                           from |-> tx_from,
                           token |-> tx_token,
                           tx |-> operation ]))

\* OperationsSchema::get_executed_priority_operation_by_eth_hash(hash)
get_executed_priority_operation_by_eth_hash(hash) ==
    LET found == { e \in executed_priority_operations : e.tx_hash = hash }
    IN IF found = {} THEN None ELSE Some(CHOOSE e \in found : TRUE)

\* find_priority_op_by_hash: operation["priority_op"]["token"].as_i64()
\* .expect("must be here") panics when the token is not an integer.
find_priority_op_by_hash(hash) ==
    LET tx == get_executed_priority_operation_by_eth_hash(hash)
    IN IF tx = None THEN Done(None)
       ELSE LET operation == tx[1].operation
                tx_type == as_str_or(operation.type, "unknown type")
                tx_token == operation.priority_op.token
                \* the priority_op objects of the model carry no from field
                tx_from == "unknown from"
            IN IF tx_token.kind # "num" THEN Panic
               ELSE Done(Some([ tx_type |-> tx_type,
                                from |-> tx_from,
                                token |-> tx_token.n,
                                tx |-> operation ]))

\* get_tx_by_hash: executed transactions first, then priority operations.
get_tx_by_hash(hash) ==
    LET response == find_tx_by_hash(hash)
    IN IF response.value # None THEN response
       ELSE find_priority_op_by_hash(hash)

\* tx_data_api_v02, as far as the payload decides its outcome: the row of the
\* hash, and tx_type.as_str().unwrap() on a type tag that is present.
tx_data_api_v02(hash) ==
    LET data == { [ tx_hash |-> e.tx_hash, op |-> e.tx ] :
                    e \in { x \in executed_transactions : x.tx_hash = hash } }
                \cup
                { [ tx_hash |-> e.tx_hash, op |-> e.operation ] :
                    e \in { x \in executed_priority_operations : x.tx_hash = hash } }
    IN IF data = {} THEN Done(None)
       ELSE LET row == CHOOSE d \in data : TRUE
            IN IF row.op.type.kind \notin { "null", "str" } THEN Panic
               ELSE Done(Some(row))

\* ---------------------------------------------------------------- the state
\* The result of the last operation; a write returns nothing.
NoRes ==
    [ op |-> "none", address |-> "", tx_id |-> <<0, 0>>, from |-> Latest,
      second_address |-> None, token |-> None, direction |-> "", limit |-> 0,
      offset |-> 0, id |-> 0, ok |-> TRUE, some |-> FALSE, page |-> << >>,
      receipt |-> None, batch |-> None, filters |-> {}, count |-> 0,
      failing |-> {} ]

NoPin ==
    [ set |-> FALSE, address |-> "", tx_id |-> <<0, 0>>, limit |-> 0,
      pages |-> {}, max_block |-> 0, hashes |-> 0 ]

\* No page is being enriched.
NoEnrichment ==
    [ fetched |-> << >>, tx_history |-> << >>, tx_item |-> 0, tokens |-> {} ]

NoTrav ==
    [ state |-> "idle", address |-> "", limit |-> 0, tx_id |-> <<0, 0>>,
      got |-> << >> ]

Init ==
    /\ executed_transactions = {}
    /\ executed_priority_operations = {}
    /\ tx_filters = {}
    /\ aggregate_operations = {}
    /\ txs_batches_hashes = {}
    /\ mempool_txs = {}
    /\ tokens_table = {}
    /\ enrichment = NoEnrichment
    /\ res = NoRes
    /\ seen = {}
    /\ pinned = NoPin
    /\ trav = NoTrav

\* ------------------------------------------------------------------- writes
\* A new entry takes the next order key and is not created before a stored one.
CanStore(block_number, block_index, created_at) ==
    /\ Cardinality(AllEntries) < MaxEntries
    /\ \A k \in StoredKeys : KeyLess(k, <<block_number, block_index>>)
    /\ \A e \in AllEntries : e.created_at <= created_at

\* The ingestion of an executed transaction (a row of executed_transactions).
StoreExecutedTx(block_number, block_index, created_at, success) ==
    /\ CanStore(block_number, block_index, created_at)
    /\ executed_transactions' = executed_transactions \cup
           { [ tx_hash |-> NewHash,
               block_number |-> block_number,
               block_index |-> block_index,
               created_at |-> created_at,
               success |-> success,
               batch_id |-> None ] }
    /\ res' = NoRes
    /\ UNCHANGED << executed_priority_operations, tx_filters, aggregate_operations,
                    seen, pinned, trav, mempool, payloads >>

\* The ingestion of an executed priority operation.
StoreExecutedPriorityOp(block_number, block_index, created_at, from_account, to_account) ==
    /\ CanStore(block_number, block_index, created_at)
    /\ executed_priority_operations' = executed_priority_operations \cup
           { [ tx_hash |-> NewHash,
               block_number |-> block_number,
               block_index |-> block_index,
               created_at |-> created_at,
               from_account |-> from_account,
               to_account |-> to_account,
               priority_op_serialid |-> Cardinality(executed_priority_operations) ] }
    /\ res' = NoRes
    /\ UNCHANGED << executed_transactions, tx_filters, aggregate_operations,
                    seen, pinned, trav, mempool, payloads >>

\* Mutant of insert_tx_filters: the rows delivered replace the table.
insert_tx_filters_replacing(addresses, tokens, hashes) ==
    { [ address |-> addresses[n], token |-> tokens[n], tx_hash |-> hashes[n] ]
      : n \in 1 .. Len(addresses) }

\* INSERT INTO tx_filters ... FROM UNNEST(addresses, tokens, hashes)
\* ON CONFLICT ON CONSTRAINT tx_filters_pkey DO NOTHING: the table after the
\* statement; a row whose (address, token, tx_hash) is present is skipped.
insert_tx_filters(addresses, tokens, hashes) ==
    tx_filters \cup
        { [ address |-> addresses[n], token |-> tokens[n], tx_hash |-> hashes[n] ]
          : n \in 1 .. Len(addresses) }

\* save_executed_tx_filters, for a delivery that adds a row.
save_executed_tx_filters(addresses, tokens, hashes) ==
    /\ Len(addresses) = Len(tokens) /\ Len(tokens) = Len(hashes)
    /\ tx_filters' = insert_tx_filters(addresses, tokens, hashes)
    /\ tx_filters' # tx_filters
    /\ res' = NoRes
    /\ UNCHANGED << executed_transactions, executed_priority_operations,
                    aggregate_operations, seen, pinned, trav, mempool, payloads >>

\* MempoolSchema::insert_batch: a batch enters the mempool under the next
\* batch id and its hash is recorded.
insert_batch(created_at) ==
    /\ Cardinality(txs_batches_hashes) < MaxBatch
    /\ LET batch_id == Cardinality(txs_batches_hashes) + 1
       IN /\ txs_batches_hashes' = txs_batches_hashes \cup
                 { [ batch_id |-> batch_id, batch_hash |-> batch_id ] }
          /\ mempool_txs' = mempool_txs \cup
                 { [ batch_id |-> batch_id, created_at |-> created_at ] }
    /\ res' = NoRes
    /\ UNCHANGED << executed_transactions, executed_priority_operations, tx_filters,
                    aggregate_operations, seen, pinned, trav, payloads >>

\* A batch hash is recorded under a batch id of any value, 0 included: the
\* table takes every BIGINT and the query reads whatever rows it holds.
store_batch_hash(batch_id, batch_hash) ==
    /\ \A b \in txs_batches_hashes :
          b.batch_id # batch_id /\ b.batch_hash # batch_hash
    /\ txs_batches_hashes' = txs_batches_hashes \cup
           { [ batch_id |-> batch_id, batch_hash |-> batch_hash ] }
    /\ res' = NoRes
    /\ UNCHANGED << executed_transactions, executed_priority_operations, tx_filters,
                    aggregate_operations, mempool_txs, seen, pinned, trav, payloads >>

\* The transactions of a batch leave the mempool.
remove_batch(batch_id) ==
    /\ \E m \in mempool_txs : m.batch_id = batch_id
    /\ mempool_txs' = { m \in mempool_txs : m.batch_id # batch_id }
    /\ res' = NoRes
    /\ UNCHANGED << executed_transactions, executed_priority_operations, tx_filters,
                    aggregate_operations, txs_batches_hashes, seen, pinned, trav, payloads >>

\* The ingestion of an executed transaction that may belong to a batch; the
\* members of a batch are executed in one block.
StoreExecutedBatchTx(block_number, block_index, created_at, success, batch_id) ==
    /\ Cardinality(AllEntries) < MaxBatchTxs
    /\ \A k \in StoredKeys : KeyLess(k, <<block_number, block_index>>)
    /\ \A e \in AllEntries : e.created_at <= created_at
    /\ batch_id # None =>
          /\ \E b \in txs_batches_hashes : b.batch_id = batch_id[1]
          /\ \A e \in executed_transactions :
                e.batch_id = batch_id => e.block_number = block_number
    /\ executed_transactions' = executed_transactions \cup
           { [ tx_hash |-> NewHash,
               block_number |-> block_number,
               block_index |-> block_index,
               created_at |-> created_at,
               success |-> success,
               batch_id |-> batch_id ] }
    /\ res' = NoRes
    /\ UNCHANGED << executed_priority_operations, tx_filters, aggregate_operations,
                    seen, pinned, trav, mempool, payloads >>

\* The operations of one action type, stored so far.
OperationsOf(action_type) ==
    { o \in aggregate_operations : o.action_type = action_type }

LastBlockOf(action_type) ==
    IF OperationsOf(action_type) = {} THEN 0
    ELSE SetMax({ o.to_block : o \in OperationsOf(action_type) })

\* A new aggregated operation covers the blocks after the last one of its type.
StoreAggregatedOperation(action_type, to_block, created_at) ==
    /\ LastBlockOf(action_type) < to_block
    /\ aggregate_operations' = aggregate_operations \cup
           { [ action_type |-> action_type,
               from_block |-> LastBlockOf(action_type) + 1,
               to_block |-> to_block,
               created_at |-> created_at,
               confirmed |-> FALSE ] }
    /\ res' = NoRes
    /\ UNCHANGED << executed_transactions, executed_priority_operations, tx_filters,
                    seen, pinned, trav, mempool, payloads >>

\* The L1 confirmation of the first unconfirmed operation of an action type.
ConfirmAggregatedOperation(action_type) ==
    /\ \E op \in OperationsOf(action_type) :
          /\ ~op.confirmed
          /\ \A o \in OperationsOf(action_type) :
                o.to_block < op.from_block => o.confirmed
          /\ aggregate_operations' =
                (aggregate_operations \ {op}) \cup { [ op EXCEPT !.confirmed = TRUE ] }
    /\ res' = NoRes
    /\ UNCHANGED << executed_transactions, executed_priority_operations, tx_filters,
                    seen, pinned, trav, mempool, payloads >>

\* -------------------------------------------------------------------- reads
\* An operation is called when the result of the one before has been taken.
\* Cursors of the model: the keys an entry can have, one below them all and
\* one above them all.
BottomCursor == <<0, 0>>
TopCursor == <<MaxBlock + 1, 0>>
Cursors == (Blocks \X Indexes) \cup { BottomCursor, TopCursor }

Call_get_account_transactions_history_from(address, tx_id, direction, limit) ==
    /\ res = NoRes
    /\ \E page \in get_account_transactions_history_from(address, tx_id, direction,
                                                          limit) :
          /\ res' = [ NoRes EXCEPT !.op = "get_account_transactions_history_from",
                                   !.address = address, !.tx_id = tx_id,
                                   !.direction = direction, !.limit = limit,
                                   !.some = TRUE, !.page = page ]
          /\ seen' = seen \cup { <<page[n].hash[2], "history">> :
                                  n \in { m \in 1 .. Len(page) : page[m].verified } }
    /\ UNCHANGED << db, pinned, trav, payloads >>

Call_get_account_transactions_history(address, offset, limit) ==
    /\ res = NoRes
    /\ \E page \in get_account_transactions_history(address, offset, limit) :
          /\ res' = [ NoRes EXCEPT !.op = "get_account_transactions_history",
                                   !.address = address, !.offset = offset,
                                   !.limit = limit, !.some = TRUE, !.page = page ]
          /\ seen' = seen \cup { <<page[n].hash[2], "history">> :
                                  n \in { m \in 1 .. Len(page) : page[m].verified } }
    /\ UNCHANGED << db, pinned, trav, payloads >>

Call_get_account_transactions(address, from, second_address, token, direction, limit) ==
    /\ res = NoRes
    /\ \E out \in get_account_transactions(address, from, second_address, token,
                                            direction, limit) :
          /\ res' = [ NoRes EXCEPT !.op = "get_account_transactions",
                                   !.address = address, !.from = from,
                                   !.second_address = second_address,
                                   !.token = token,
                                   !.direction = direction, !.limit = limit,
                                   !.ok = out.ok, !.some = out.some,
                                   !.page = out.txs ]
          /\ seen' = seen \cup { <<out.txs[n].tx_hash, "txs">> :
                                  n \in { m \in 1 .. Len(out.txs) :
                                            out.txs[m].finalized } }
    /\ UNCHANGED << db, pinned, trav, payloads >>

Call_tx_receipt(hash) ==
    /\ res = NoRes
    /\ LET receipt == tx_receipt(hash)
       IN /\ res' = [ NoRes EXCEPT !.op = "tx_receipt", !.id = hash,
                                   !.some = (receipt # None),
                                   !.receipt = receipt ]
          /\ seen' = IF receipt # None /\ receipt[1].verified
                     THEN seen \cup { <<hash, "receipt">> } ELSE seen
    /\ UNCHANGED << db, pinned, trav, payloads >>

Call_get_priority_op_receipt(op_id) ==
    /\ res = NoRes
    /\ LET receipt == get_priority_op_receipt(op_id)
           op == get_executed_priority_operation(op_id)
       IN /\ res' = [ NoRes EXCEPT !.op = "get_priority_op_receipt", !.id = op_id,
                                   !.some = TRUE, !.receipt = Some(receipt) ]
          /\ seen' = IF receipt.verified
                     THEN seen \cup { <<op[1].tx_hash, "receipt">> } ELSE seen
    /\ UNCHANGED << db, pinned, trav, payloads >>

\* save_executed_tx_filters with its result: the rows delivered, the number of
\* rows of the table before the call, and Ok(()).
Call_save_executed_tx_filters(addresses, tokens, hashes) ==
    /\ res = NoRes
    /\ Len(addresses) = Len(tokens) /\ Len(tokens) = Len(hashes)
    /\ tx_filters' = insert_tx_filters(addresses, tokens, hashes)
    /\ res' = [ NoRes EXCEPT
                  !.op = "save_executed_tx_filters",
                  !.filters = { [ address |-> addresses[n], token |-> tokens[n],
                                  tx_hash |-> hashes[n] ]
                                : n \in 1 .. Len(addresses) },
                  !.count = Cardinality(tx_filters),
                  !.ok = TRUE ]
    /\ UNCHANGED << executed_transactions, executed_priority_operations,
                    aggregate_operations, seen, pinned, trav, mempool, payloads >>

Call_get_account_transactions_count(address, token, second_address) ==
    /\ res = NoRes
    /\ res' = [ NoRes EXCEPT
                  !.op = "get_account_transactions_count",
                  !.address = address, !.token = token,
                  !.second_address = second_address,
                  !.count = get_account_transactions_count(address, token,
                                                           second_address) ]
    /\ UNCHANGED << db, seen, pinned, trav, payloads >>

Call_last_block_with_updated_tx_filters ==
    /\ res = NoRes
    /\ res' = [ NoRes EXCEPT !.op = "last_block_with_updated_tx_filters",
                             !.count = last_block_with_updated_tx_filters ]
    /\ UNCHANGED << db, seen, pinned, trav, payloads >>

\* The ingestion of an executed transaction with its payload `tx`.
StorePayloadTx(tx) ==
    /\ Cardinality(AllEntries) < MaxEntries
    /\ executed_transactions' = executed_transactions \cup
           { [ tx_hash |-> NewHash,
               block_number |-> NewHash,
               block_index |-> 0,
               created_at |-> Min(NewHash, MaxTime),
               success |-> TRUE,
               batch_id |-> None,
               tx |-> tx ] }
    /\ res' = NoRes
    /\ UNCHANGED << executed_priority_operations, tx_filters, aggregate_operations,
                    seen, pinned, trav, mempool, payloads >>

\* The ingestion of an executed priority operation with its payload.
StorePayloadPriorityOp(operation) ==
    /\ Cardinality(AllEntries) < MaxEntries
    /\ executed_priority_operations' = executed_priority_operations \cup
           { [ tx_hash |-> NewHash,
               block_number |-> NewHash,
               block_index |-> 0,
               created_at |-> Min(NewHash, MaxTime),
               from_account |-> "a1",
               to_account |-> "a1",
               priority_op_serialid |-> Cardinality(executed_priority_operations),
               operation |-> operation ] }
    /\ res' = NoRes
    /\ UNCHANGED << executed_transactions, tx_filters, aggregate_operations,
                    seen, pinned, trav, mempool, payloads >>

\* TokensSchema::store_token: a token gets its symbol.
store_token(id, symbol) ==
    /\ \A t \in tokens_table : t.id # id
    /\ tokens_table' = tokens_table \cup { [ id |-> id, symbol |-> symbol ] }
    /\ UNCHANGED << db, enrichment, res, seen, pinned, trav >>

\* The payloads of the stored entries as a history query returns them, the
\* last block first.
payload_page ==
    LET rows == { [ block_number |-> e.block_number, tx |-> e.tx ] :
                    e \in executed_transactions }
                \cup
                { [ block_number |-> e.block_number, tx |-> e.operation ] :
                    e \in executed_priority_operations }
        order == CHOOSE o \in OrderBy(rows, [ r \in rows |-> 0 - r.block_number ]) :
                     TRUE
    IN [ n \in 1 .. Len(order) |-> order[n].tx ]

\* if !tx_history.is_empty() { let tokens = load_tokens() ...: a page that is
\* not empty has been fetched, the token table is loaded, the loop starts.
FetchHistoryPage ==
    /\ enrichment = NoEnrichment
    /\ res = NoRes
    /\ Len(payload_page) # 0
    /\ enrichment' = [ fetched |-> payload_page, tx_history |-> payload_page,
                       tx_item |-> 1, tokens |-> tokens_table ]
    /\ UNCHANGED << db, tokens_table, res, seen, pinned, trav >>

\* One iteration of `for tx_item in &mut tx_history`.
EnrichItem ==
    /\ enrichment # NoEnrichment
    /\ enrichment.tx_item <= Len(enrichment.tx_history)
    /\ enrichment' =
          [ enrichment EXCEPT
              !.tx_history[enrichment.tx_item] = enrich_item(@, enrichment.tokens),
              !.tx_item = @ + 1 ]
    /\ UNCHANGED << db, tokens_table, res, seen, pinned, trav >>

\* Ok(tx_history)
ReturnHistory ==
    /\ enrichment # NoEnrichment
    /\ enrichment.tx_item > Len(enrichment.tx_history)
    /\ enrichment' = NoEnrichment
    /\ UNCHANGED << db, tokens_table, res, seen, pinned, trav >>

Call_get_tx_by_hash(hash) ==
    /\ res = NoRes
    /\ LET out == get_tx_by_hash(hash)
       IN res' = [ NoRes EXCEPT !.op = "get_tx_by_hash", !.id = hash,
                                !.ok = ~out.panic, !.some = (out.value # None),
                                !.receipt = out.value ]
    /\ UNCHANGED << db, seen, pinned, trav, payloads >>

Call_tx_data_api_v02(hash) ==
    /\ res = NoRes
    /\ LET out == tx_data_api_v02(hash)
       IN res' = [ NoRes EXCEPT !.op = "tx_data_api_v02", !.id = hash,
                                !.ok = ~out.panic, !.some = (out.value # None),
                                !.receipt = out.value ]
    /\ UNCHANGED << db, seen, pinned, trav, payloads >>

Call_get_tx_created_at_and_block_number(tx_hash) ==
    /\ res = NoRes
    /\ LET out == get_tx_created_at_and_block_number(tx_hash)
       IN res' = [ NoRes EXCEPT !.op = "get_tx_created_at_and_block_number",
                                !.id = tx_hash, !.some = (out # None),
                                !.receipt = out ]
    /\ UNCHANGED << db, seen, pinned, trav, payloads >>

\* The page operations over a store some of whose queries fail.
Call_get_account_transactions_or_error(address, from, direction, limit, failing) ==
    /\ res = NoRes
    /\ \E out \in get_account_transactions_or_error(address, from, None, None,
                                                     direction, limit, failing) :
          res' = [ NoRes EXCEPT !.op = "get_account_transactions",
                                !.address = address, !.from = from,
                                !.direction = direction, !.limit = limit,
                                !.failing = failing,
                                !.ok = out.ok, !.some = out.some,
                                !.page = out.txs ]
    /\ UNCHANGED << db, seen, pinned, trav, payloads >>

Call_get_account_transactions_history_from_or_error(address, tx_id, direction, limit, failing) ==
    /\ res = NoRes
    /\ \E out \in get_account_transactions_history_from_or_error(
                       address, tx_id, direction, limit, failing) :
          res' = [ NoRes EXCEPT !.op = "get_account_transactions_history_from",
                                !.address = address, !.tx_id = tx_id,
                                !.direction = direction, !.limit = limit,
                                !.failing = failing,
                                !.ok = out.ok, !.some = out.some,
                                !.page = out.txs ]
    /\ UNCHANGED << db, seen, pinned, trav, payloads >>

Call_get_in_block_batch_info(batch_hash) ==
    /\ res = NoRes
    /\ \E batch \in get_in_block_batch_info(batch_hash) :
          res' = [ NoRes EXCEPT !.op = "get_in_block_batch_info",
                                !.id = batch_hash, !.some = (batch # None),
                                !.batch = batch ]
    /\ UNCHANGED << db, seen, pinned, trav, payloads >>

Call_get_batch_info(batch_hash) ==
    /\ res = NoRes
    /\ \E batch \in get_batch_info(batch_hash) :
          res' = [ NoRes EXCEPT !.op = "get_batch_info",
                                !.id = batch_hash, !.some = (batch # None),
                                !.batch = batch ]
    /\ UNCHANGED << db, seen, pinned, trav, payloads >>

\* The caller takes the result; the next operation can be called.
Return ==
    /\ res # NoRes
    /\ res' = NoRes
    /\ UNCHANGED << db, seen, pinned, trav, payloads >>

\* ------------------------------------------------------------ specifications
\* The page queries over a store that grows; no aggregated operation is stored.
StoreEntry ==
    \E b \in Blocks, i \in Indexes, t \in Times :
       \/ StoreExecutedTx(b, i, t, TRUE)
       \/ \E a \in Addresses : StoreExecutedPriorityOp(b, i, t, a, a)

SaveFilter ==
    \E a \in Addresses, t \in Tokens, h \in StoredHashes :
       save_executed_tx_filters(<<a>>, <<t>>, <<h>>)

ReadPage ==
    \E a \in Addresses, d \in Directions, l \in Limits :
       \/ \E c \in Cursors : Call_get_account_transactions_history_from(a, c, d, l)
       \/ \E h \in Hashes \cup { Latest, UnknownHash } :
             Call_get_account_transactions(a, h, None, None, d, l)

Next == StoreEntry \/ SaveFilter \/ ReadPage \/ Return

Spec == Init /\ [][Next]_vars

\* A traversal of the history of an address by successive Older pages.  It
\* starts above every entry; each page is asked for from the tx_id of the last
\* entry of the page before; an empty page ends it.
StartTraversal(address, limit) ==
    /\ trav.state = "idle"
    /\ trav' = [ state |-> "running", address |-> address, limit |-> limit,
                 tx_id |-> TopCursor, got |-> << >> ]
    /\ UNCHANGED << db, res, seen, pinned, payloads >>

TraversalPage ==
    /\ trav.state = "running"
    /\ \E page \in get_account_transactions_history_from(
                        trav.address, trav.tx_id, "Older", trav.limit) :
          trav' = IF Len(page) = 0
                  THEN [ trav EXCEPT !.state = "done" ]
                  ELSE [ trav EXCEPT
                           !.got = @ \o [ n \in 1 .. Len(page) |-> page[n].hash ],
                           !.tx_id = page[Len(page)].tx_id ]
    /\ UNCHANGED << db, res, seen, pinned, payloads >>

\* No write happens once the traversal has started.
NextTraversal ==
    \/ (trav.state = "idle" /\ (StoreEntry \/ SaveFilter))
    \/ \E a \in Addresses, l \in Limits : StartTraversal(a, l)
    \/ TraversalPage

SpecTraversal == Init /\ [][NextTraversal]_vars

\* An Older page query is asked once and the pages it can return are kept;
\* after that the store only takes appends at new block numbers.
MaxStoredBlock ==
    IF AllEntries = {} THEN 0 ELSE SetMax({ e.block_number : e \in AllEntries })

Pin(address, tx_id, limit) ==
    /\ ~pinned.set
    /\ pinned' = [ set |-> TRUE, address |-> address, tx_id |-> tx_id,
                   limit |-> limit,
                   pages |-> get_account_transactions_history_from(
                                 address, tx_id, "Older", limit),
                   max_block |-> MaxStoredBlock,
                   hashes |-> Cardinality(AllEntries) ]
    /\ UNCHANGED << db, res, seen, trav, payloads >>

\* Appends of new entries, with their filter entries, at block numbers greater
\* than every block number stored when the page was asked for.
AppendAbove ==
    \/ \E b \in Blocks, i \in Indexes, t \in Times :
          /\ b > pinned.max_block
          /\ \/ StoreExecutedTx(b, i, t, TRUE)
             \/ \E a \in Addresses : StoreExecutedPriorityOp(b, i, t, a, a)
    \/ \E a \in Addresses, t \in Tokens, h \in StoredHashes :
          /\ h > pinned.hashes
          /\ save_executed_tx_filters(<<a>>, <<t>>, <<h>>)

NextStable ==
    \/ (~pinned.set /\ (StoreEntry \/ SaveFilter))
    \/ \E a \in Addresses, c \in Cursors, l \in Limits : Pin(a, c, l)
    \/ (pinned.set /\ AppendAbove)

SpecStable == Init /\ [][NextStable]_vars

\* The status reads over a store in which aggregated operations are stored and
\* confirmed.  Every entry is the first of its block, created at the time of
\* the block, and the filter index is written for address "a1".
StoreBlockEntry ==
    \E b \in Blocks :
       \/ \E s \in BOOLEAN : StoreExecutedTx(b, 0, Min(b, MaxTime), s)
       \/ \E a \in Addresses : StoreExecutedPriorityOp(b, 0, Min(b, MaxTime), a, a)

SaveFilterA1 ==
    \E t \in Tokens, h \in StoredHashes :
       save_executed_tx_filters(<<"a1">>, <<t>>, <<h>>)

ActionTypes == { "CommitBlocks", "ExecuteBlocks" }

Settle ==
    \E k \in ActionTypes :
       \/ \E b \in Blocks : StoreAggregatedOperation(k, b, MaxTime)
       \/ ConfirmAggregatedOperation(k)

ReadStatus ==
    \/ \E h \in Hashes \cup { UnknownHash } : Call_tx_receipt(h)
    \/ \E id \in 0 .. MaxEntries : Call_get_priority_op_receipt(id)
    \/ \E l \in Limits :
          \/ Call_get_account_transactions_history_from("a1", TopCursor, "Older", l)
          \/ Call_get_account_transactions_history("a1", 0, l)
          \/ Call_get_account_transactions("a1", Latest, None, None, "Older", l)

NextStatus == StoreBlockEntry \/ SaveFilterA1 \/ Settle \/ ReadStatus \/ Return

SpecStatus == Init /\ [][NextStatus]_vars

\* The filter index: rows are delivered for stored entries, one or two rows
\* of an entry at a time and any number of times, while the index is read.
FilterTokens == 0 .. MaxToken

DeliverFilters ==
    \E h \in StoredHashes, a1 \in Addresses, t1 \in FilterTokens :
       \/ Call_save_executed_tx_filters(<<a1>>, <<t1>>, <<h>>)
       \/ \E a2 \in Addresses, t2 \in FilterTokens :
             Call_save_executed_tx_filters(<<a1, a2>>, <<t1, t2>>, <<h, h>>)

OptionalOf(S) == { None } \cup { Some(x) : x \in S }

ReadFilters ==
    \/ \E a \in Addresses, t \in OptionalOf(FilterTokens), b \in OptionalOf(Addresses) :
          Call_get_account_transactions_count(a, t, b)
    \/ Call_last_block_with_updated_tx_filters
    \/ \E a \in Addresses, b \in Addresses, d \in Directions :
          \E h \in Hashes \cup { Latest, UnknownHash } :
             Call_get_account_transactions(a, h, Some(b), None, d, MaxLimit)

NextFilters == StoreBlockEntry \/ DeliverFilters \/ ReadFilters \/ Return

SpecFilters == Init /\ [][NextFilters]_vars

\* The page operations of address "a1" while at most one kind of store query
\* fails.
Failures == { {} } \cup { { q } : q \in PageQueries }

ReadOrFail ==
    \E d \in Directions, failing \in Failures :
       \/ \E h \in Hashes \cup { Latest, UnknownHash } :
             Call_get_account_transactions_or_error("a1", h, d, MaxLimit, failing)
       \/ \E c \in { BottomCursor, TopCursor } :
             Call_get_account_transactions_history_from_or_error(
                 "a1", c, d, MaxLimit, failing)

NextFailure ==
    \/ StoreBlockEntry
    \/ SaveFilterA1
    \/ \E b \in Blocks : StoreAggregatedOperation("ExecuteBlocks", b, MaxTime)
    \/ ConfirmAggregatedOperation("ExecuteBlocks")
    \/ ReadOrFail
    \/ Return

SpecFailure == Init /\ [][NextFailure]_vars

\* The payloads: entries are stored with a payload, token 0 may get its
\* symbol, history pages are enriched and entries are looked up by hash.
PayloadTypes == { JNull, JNum(0), JStr("Transfer"), JStr("Deposit"), JStr("Exotic") }
PayloadTokens == { JNull, JNum(0), JNum(MIN_NFT_TOKEN_ID) }
PayloadFroms == { JNull, JStr("a1") }
PayloadPriorityOps == { NoPriorityOp } \cup { PriorityOpObject(t) : t \in PayloadTokens }

\* A priority_op object comes with the Deposit tag or with no tag at all, a
\* from field with a Transfer or with no tag at all.
Payloads ==
    { p \in [ type : PayloadTypes, token : PayloadTokens, from : PayloadFroms,
              priority_op : PayloadPriorityOps ] :
        /\ p.priority_op.present => p.type \in { JNull, JStr("Deposit") }
        /\ p.from # JNull => p.type \in { JNull, JStr("Transfer") } }

StorePayload ==
    /\ enrichment = NoEnrichment
    /\ \E p \in Payloads : StorePayloadTx(p) \/ StorePayloadPriorityOp(p)

EnrichPage == FetchHistoryPage \/ EnrichItem \/ ReturnHistory

ReadPayload ==
    /\ enrichment = NoEnrichment
    /\ \E h \in Hashes \cup { UnknownHash } :
          Call_get_tx_by_hash(h) \/ Call_tx_data_api_v02(h)

NextPayload ==
    \/ StorePayload
    \/ store_token(0, "ETH")
    \/ EnrichPage
    \/ ReadPayload
    \/ Return

SpecPayload == Init /\ [][NextPayload]_vars

\* The batch reads over a store in which batches are queued and executed and
\* ExecuteBlocks operations are stored and confirmed.
StoreBatchEntry ==
    \E b \in Blocks, i \in Indexes, t \in Times, s \in BOOLEAN :
       \E batch_id \in { None } \cup { Some(n) : n \in BatchIds } :
          StoreExecutedBatchTx(b, i, t, s, batch_id)

QueueBatch ==
    \/ \E t \in Times : insert_batch(t)
    \/ \E n \in BatchIds : remove_batch(n)

Execute ==
    \/ \E b \in Blocks, t \in Times : StoreAggregatedOperation("ExecuteBlocks", b, t)
    \/ ConfirmAggregatedOperation("ExecuteBlocks")

ReadBatch ==
    \E h \in BatchHashes :
       \/ Call_get_in_block_batch_info(h)
       \/ Call_get_batch_info(h)

NextBatch == StoreBatchEntry \/ QueueBatch \/ Execute \/ ReadBatch \/ Return

SpecBatch == Init /\ [][NextBatch]_vars

\* The included batches over a store whose batch ids are any identifiers,
\* 0 included; the hash of a batch is its id plus one.
AnyBatchIds == 0 .. MaxBatch

StoreAnyBatchEntry ==
    \E b \in Blocks, i \in Indexes, t \in Times, s \in BOOLEAN :
       \E batch_id \in { None } \cup { Some(n) : n \in AnyBatchIds } :
          StoreExecutedBatchTx(b, i, t, s, batch_id)

NextBatchIds ==
    \/ StoreAnyBatchEntry
    \/ \E n \in AnyBatchIds : store_batch_hash(n, n + 1)
    \/ \E h \in BatchHashes : Call_get_in_block_batch_info(h)
    \/ Return

SpecBatchIds == Init /\ [][NextBatchIds]_vars

\* The lookups by identifier over a store of entries with well-formed
\* payloads and of batches that are queued and leave the mempool.
LookupPayloads ==
    { [ type |-> JStr("Transfer"), token |-> JNum(0), from |-> JStr("a1"),
        priority_op |-> NoPriorityOp ],
      [ type |-> JStr("Deposit"), token |-> JNull, from |-> JNull,
        priority_op |-> PriorityOpObject(JNum(0)) ] }

StoreLookupEntry ==
    \E p \in LookupPayloads : StorePayloadTx(p) \/ StorePayloadPriorityOp(p)

ReadLookup ==
    \/ \E h \in Hashes \cup { UnknownHash } :
          \/ Call_tx_receipt(h)
          \/ Call_get_tx_by_hash(h)
          \/ Call_get_tx_created_at_and_block_number(h)
    \/ \E id \in 0 .. MaxEntries : Call_get_priority_op_receipt(id)
    \/ \E h \in BatchHashes : Call_get_batch_info(h)

NextLookup == StoreLookupEntry \/ QueueBatch \/ ReadLookup \/ Return

SpecLookup == Init /\ [][NextLookup]_vars

\* A client pages through the history of an address by offset: the page at
\* offset 0 is kept, writers go on appending, and the page at offset = limit
\* is asked for.
\* The number of entries of the whole history of an address.
HistoryLength(address) ==
    Len(CHOOSE page \in get_account_transactions_history(
                            address, 0, Cardinality(AllEntries) + 1) : TRUE)

FirstOffsetPage(address, limit) ==
    /\ ~pinned.set
    /\ res = NoRes
    /\ \E page \in get_account_transactions_history(address, 0, limit) :
          pinned' = [ set |-> TRUE, address |-> address, tx_id |-> <<0, 0>>,
                      limit |-> limit, pages |-> { page },
                      max_block |-> MaxStoredBlock,
                      hashes |-> HistoryLength(address) ]
    /\ UNCHANGED << db, res, seen, trav, payloads >>

SecondOffsetPage ==
    /\ pinned.set
    /\ Call_get_account_transactions_history(pinned.address, pinned.limit,
                                             pinned.limit)

NextOffset ==
    \/ StoreEntry
    \/ SaveFilter
    \/ \E a \in Addresses, l \in Limits : FirstOffsetPage(a, l)
    \/ SecondOffsetPage
    \/ Return

SpecOffset == Init /\ [][NextOffset]_vars

\* ------------------------------------------------------ properties of the pages
IsHistoryFrom == res.op = "get_account_transactions_history_from"
IsAccountTxs ==
    res.op = "get_account_transactions" /\ res.ok /\ res.some

\* The order key of a returned entry of either page operation.
PageKey(e) == IF IsHistoryFrom THEN e.tx_id ELSE <<e.block_number, e.block_index>>

\* All history rows of an address.
AllRows(address) == history_from_rows(address, TopCursor, "Older")

CursorEntry == CHOOSE e \in AllEntries : e.tx_hash = res.from

HashCursorPage == IsAccountTxs /\ res.from \in StoredHashes

\* C3 as stated: with a hash cursor, a page of get_account_transactions holds
\* only entries strictly older (Older) or strictly newer (Newer) than the cursor
\* entry, and never the cursor entry itself.
C3_Original ==
    HashCursorPage =>
        \A n \in 1 .. Len(res.page) :
            /\ res.page[n].tx_hash # res.from
            /\ IF res.direction = "Older"
               THEN KeyLess(PageKey(res.page[n]),
                            <<CursorEntry.block_number, CursorEntry.block_index>>)
               ELSE KeyLess(<<CursorEntry.block_number, CursorEntry.block_index>>,
                            PageKey(res.page[n]))

\* C3 amended: with a hash cursor, a page holds only entries created no later
\* than the cursor entry (Older) or no earlier (Newer); the range includes the
\* cursor entry, so a page shorter than the limit holds the cursor entry
\* whenever the filter index lists it for the address.
C3_InclusiveOfCursor ==
    HashCursorPage =>
        /\ \A n \in 1 .. Len(res.page) :
              IF res.direction = "Older"
              THEN res.page[n].created_at <= CursorEntry.created_at
              ELSE res.page[n].created_at >= CursorEntry.created_at
        /\ (res.from \in tx_hashes(res.address) /\ Len(res.page) < res.limit)
              => \E n \in 1 .. Len(res.page) : res.page[n].tx_hash = res.from

\* C3 witness: a page with a hash cursor that returns the cursor entry together
\* with another entry.
C3_Witness ==
    /\ HashCursorPage
    /\ Len(res.page) >= 2
    /\ \E n \in 1 .. Len(res.page) : res.page[n].tx_hash = res.from

\* C4 as stated: adjacent entries of a page have non-increasing order keys in
\* an Older page and non-decreasing order keys in a Newer page.
C4_PageOrdered ==
    (IsHistoryFrom \/ IsAccountTxs) =>
        \A n \in 1 .. (Len(res.page) - 1) :
            IF res.direction = "Older"
            THEN ~KeyLess(PageKey(res.page[n]), PageKey(res.page[n + 1]))
            ELSE ~KeyLess(PageKey(res.page[n + 1]), PageKey(res.page[n]))

\* The entries of both partitions that qualify for a page of
\* get_account_transactions from time_from on, as TransactionItems.
QualifyingItems(address, time_from, direction) ==
    { transaction_item(e, None) :
        e \in { x \in executed_transactions :
                  /\ x.tx_hash \in tx_hashes(address)
                  /\ IF direction = "Newer" THEN x.created_at >= time_from
                     ELSE x.created_at <= time_from } }
    \cup
    { transaction_item(e, Some(e.priority_op_serialid)) :
        e \in { x \in executed_priority_operations :
                  /\ x.tx_hash \in tx_hashes(address)
                  /\ IF direction = "Newer" THEN x.created_at >= time_from
                     ELSE x.created_at <= time_from } }

\* The time the page starts from: the cursor entry's created_at, or that of the
\* last entry of the address when the cursor is Latest.
PageTimeFrom ==
    IF res.from = Latest
    THEN SetMax({ e.created_at : e \in { x \in AllEntries :
                                           x.tx_hash \in tx_hashes(res.address) } })
    ELSE CursorEntry.created_at

\* The hashes of a sequence of entries.
HashesOf(s) == [ n \in 1 .. Len(s) |-> s[n].tx_hash ]

MergedPage ==
    /\ IsAccountTxs
    /\ res.second_address = None
    /\ res.from \in StoredHashes
          \/ (res.from = Latest /\ tx_hashes(res.address) \cap StoredHashes # {})

\* C5: without a second address, a page of get_account_transactions has at
\* most `limit` entries and is the first `limit` entries, in the order of the
\* direction (by created_at, ties in either order), of all qualifying entries
\* of both partitions.
C5_MergeKeepsFirstEntries ==
    MergedPage =>
        /\ Len(res.page) <= res.limit
        /\ LET all == QualifyingItems(res.address, PageTimeFrom, res.direction)
               rank == [ r \in all |-> IF res.direction = "Newer"
                                       THEN r.created_at ELSE 0 - r.created_at ]
           IN HashesOf(res.page) \in
                  { HashesOf(Take(o, res.limit)) : o \in OrderBy(all, rank) }

\* C5 witness: both partitions hold qualifying entries, more than the limit
\* together, and the page returned starts with a priority operation.
C5_Witness ==
    /\ MergedPage
    /\ LET all == QualifyingItems(res.address, PageTimeFrom, res.direction)
       IN /\ Cardinality(all) > res.limit
          /\ \E r \in all : r.priority_op_serialid = None
          /\ \E r \in all : r.priority_op_serialid # None
    /\ Len(res.page) = res.limit
    /\ res.page[1].priority_op_serialid # None

\* C7 as stated: in a fixed stored state a page operation called again with
\* the same arguments returns the same sequence: the page just returned is the
\* only one the call can return.
C7_Deterministic ==
    /\ IsHistoryFrom =>
          \A p \in get_account_transactions_history_from(
                       res.address, res.tx_id, res.direction, res.limit) :
              p = res.page
    /\ IsAccountTxs =>
          \A out \in get_account_transactions(
                         res.address, res.from, res.second_address, res.token,
                         res.direction, res.limit) :
              out.txs = res.page

\* --------------------------------------------------- properties of a traversal
\* C1 as stated: with no write during the traversal, the Older pages from above
\* the most recent entry down to the empty page hold every history entry of
\* the address exactly once.
C1_TraversalComplete ==
    trav.state = "done" =>
        LET all == { r.hash : r \in AllRows(trav.address) }
        IN /\ Range(trav.got) = all
           /\ Len(trav.got) = Cardinality(all)

\* ------------------------------------------- properties of a page under appends
PinnedPagesNow ==
    get_account_transactions_history_from(pinned.address, pinned.tx_id, "Older",
                                          pinned.limit)

\* C6 as stated: for a fixed cursor and limit, the Older page is the same
\* before and after appends at block numbers greater than every block number
\* stored before.
C6_Original == pinned.set => PinnedPagesNow = pinned.pages

\* C6 amended: for a fixed limit and a fixed cursor whose block number is not
\* above the highest block number stored when the page is first asked for,
\* the pages the Older query can return are the same before and after appends
\* at greater block numbers.
C6_StableBelowStoredBlocks ==
    (pinned.set /\ pinned.tx_id[1] <= pinned.max_block) =>
        PinnedPagesNow = pinned.pages

\* C6 witness: the cursor is within the stored blocks, the page is not empty,
\* and an entry of the address has been appended since.
C6_Witness ==
    /\ pinned.set
    /\ pinned.tx_id[1] <= pinned.max_block
    /\ \E p \in pinned.pages : Len(p) >= 1
    /\ \E r \in AllRows(pinned.address) : r.hash[2] > pinned.hashes

\* -------------------------------------------------------- properties of status
\* The block is in the range of a confirmed ExecuteBlocks operation.
CoveredByConfirmedExecute(block_number) ==
    \E o \in aggregate_operations :
        /\ o.action_type = "ExecuteBlocks"
        /\ o.confirmed
        /\ o.from_block <= block_number /\ block_number <= o.to_block

CoveredByConfirmedCommit(block_number) ==
    \E o \in aggregate_operations :
        /\ o.action_type = "CommitBlocks"
        /\ o.confirmed
        /\ o.from_block <= block_number /\ block_number <= o.to_block

EntryOf(hash) == CHOOSE e \in AllEntries : e.tx_hash = hash

\* C8: tx_receipt and get_priority_op_receipt report an included entry as
\* verified exactly when a confirmed ExecuteBlocks operation covers its block.
C8_VerifiedIffConfirmedRange ==
    /\ (res.op = "tx_receipt" /\ res.receipt # None) =>
          (res.receipt[1].verified
             <=> CoveredByConfirmedExecute(res.receipt[1].block_number))
    /\ (res.op = "get_priority_op_receipt"
          /\ get_executed_priority_operation(res.id) # None) =>
          (res.receipt[1].verified
             <=> CoveredByConfirmedExecute(
                     get_executed_priority_operation(res.id)[1].block_number))

\* C8 witness: a receipt reports verified for an entry while another
\* ExecuteBlocks operation is stored and not confirmed.
C8_Witness ==
    /\ res.op \in { "tx_receipt", "get_priority_op_receipt" }
    /\ res.receipt # None
    /\ res.receipt[1].verified
    /\ \E o \in aggregate_operations :
          o.action_type = "ExecuteBlocks" /\ ~o.confirmed

\* What each read path reports now for a stored entry.
ReceiptVerified(e) ==
    IF e \in executed_transactions
    THEN tx_receipt(e.tx_hash)[1].verified
    ELSE get_priority_op_receipt(e.priority_op_serialid).verified

HistoryVerified(e) ==
    IF e \in executed_transactions
    THEN history_item(history_tx_row(e)).verified
    ELSE history_item(history_priority_op_row(e)).verified

TxsFinalized(e) ==
    LET item == IF e \in executed_transactions
                THEN transaction_item(e, None)
                ELSE transaction_item(e, Some(e.priority_op_serialid))
    IN finalize_txs(<<item>>)[1].finalized

CommittedFlags ==
    IF res.op \in { "get_account_transactions_history",
                    "get_account_transactions_history_from" }
    THEN { [ committed |-> res.page[n].commited,
             block_number |-> res.page[n].block_number,
             success |-> res.page[n].success ] : n \in 1 .. Len(res.page) }
    ELSE IF res.op = "get_priority_op_receipt"
            /\ get_executed_priority_operation(res.id) # None
    THEN { [ committed |-> res.receipt[1].committed,
             block_number |->
                 get_executed_priority_operation(res.id)[1].block_number,
             success |-> TRUE ] }
    ELSE {}

\* C10 as stated: a successful included entry not covered by a confirmed
\* ExecuteBlocks range is reported committed only if a confirmed CommitBlocks
\* range covers its block.
C10_Original ==
    \A f \in CommittedFlags :
        (f.success /\ ~CoveredByConfirmedExecute(f.block_number)) =>
            (f.committed <=> CoveredByConfirmedCommit(f.block_number))

\* C10 amended: the history operations and get_priority_op_receipt report
\* every included entry as committed, whether or not a confirmed CommitBlocks
\* range covers its block.
C10_IncludedIsCommitted ==
    \A f \in CommittedFlags : f.committed

\* C10 witness: a successful entry whose block no confirmed operation covers
\* is reported committed.
C10_Witness ==
    \E f \in CommittedFlags :
        /\ f.success /\ f.committed
        /\ ~CoveredByConfirmedExecute(f.block_number)
        /\ ~CoveredByConfirmedCommit(f.block_number)

\* The entries the filter index lists for an address.
AddressEntries(address) == { e \in AllEntries : e.tx_hash \in tx_hashes(address) }

\* The latest created_at of the entries of an address.
LatestTime(address) == SetMax({ e.created_at : e \in AddressEntries(address) })

UnknownCursor ==
    /\ res.op = "get_account_transactions"
    /\ res.from # Latest
    /\ res.from \notin StoredHashes

\* C16 as stated: a cursor hash that matches no stored transaction and no
\* stored priority operation gives the empty page, the result of an address
\* with no history, and not an error.
C16_Original ==
    UnknownCursor => (res.ok /\ res.some /\ res.page = << >>)

\* C16 amended: a cursor hash that matches no stored entry gives Ok(None), no
\* page at all and not an error; the empty page Ok(Some([])) is the result of
\* the Latest cursor for an address with no entry in the filter index.
C16_UnknownCursorIsNone ==
    /\ UnknownCursor => (res.ok /\ ~res.some)
    /\ (res.op = "get_account_transactions" /\ res.from = Latest
           /\ AddressEntries(res.address) = {})
          => (res.ok /\ res.some /\ res.page = << >>)

\* An unknown cursor is given for an address that has entries.
C16_Witness ==
    /\ UnknownCursor
    /\ AddressEntries(res.address) # {}
    /\ res.ok /\ ~res.some

LatestCursorPage ==
    /\ IsAccountTxs
    /\ res.from = Latest
    /\ res.second_address = None

\* C17 as stated: with no cursor hash an Older page starts at the most recent
\* entry of the address and a Newer page is the oldest `limit` entries of the
\* address.
C17_Original ==
    (LatestCursorPage /\ AddressEntries(res.address) # {}) =>
        IF res.direction = "Older"
        THEN /\ Len(res.page) > 0
             /\ res.page[1].created_at = LatestTime(res.address)
        ELSE /\ Len(res.page) =
                   Min(res.limit, Cardinality(AddressEntries(res.address)))
             /\ \A n \in 1 .. Len(res.page) :
                   \A e \in AddressEntries(res.address) :
                      e.tx_hash \in Range(HashesOf(res.page))
                         \/ res.page[n].created_at <= e.created_at

\* C17 amended: with no cursor hash the page starts at the most recent entry
\* of the address in both directions.  An Older page is the `limit` most
\* recent entries; a Newer page holds only entries created no earlier than the
\* most recent entry, and never goes back to the start of the history.
C17_LatestStartsAtMostRecent ==
    LatestCursorPage =>
        IF AddressEntries(res.address) = {} THEN res.page = << >>
        ELSE /\ Len(res.page) > 0
             /\ res.page[1].created_at = LatestTime(res.address)
             /\ IF res.direction = "Older"
                THEN Len(res.page) =
                        Min(res.limit, Cardinality(AddressEntries(res.address)))
                ELSE \A n \in 1 .. Len(res.page) :
                        res.page[n].created_at = LatestTime(res.address)

\* A Newer page with no cursor hash leaves out an older entry of the address
\* although the limit has room for it.
C17_Witness ==
    /\ LatestCursorPage
    /\ res.direction = "Newer"
    /\ Cardinality(AddressEntries(res.address)) = 2
    /\ Len(res.page) = 1
    /\ res.limit = 2

\* ----------------------------------------------- properties of the filter index
\* A call of get_account_transactions with a second address and a cursor that
\* resolves to a stored entry.
TwoAccountsCall ==
    /\ res.op = "get_account_transactions"
    /\ res.second_address # None
    /\ \/ res.from \in StoredHashes
       \/ res.from = Latest /\ AddressEntries(res.address) # {}

\* The ordinary transactions indexed for both addresses of the call, within
\* the range of the cursor.
TwoAccountsTxs ==
    { e \in executed_transactions :
        /\ e.tx_hash \in tx_hashes(res.address)
        /\ e.tx_hash \in tx_hashes(res.second_address[1])
        /\ IF res.direction = "Newer" THEN e.created_at >= PageTimeFrom
           ELSE e.created_at <= PageTimeFrom }

\* C15: with a second address, get_account_transactions returns, within the
\* range of the cursor and the limit, exactly the ordinary transactions the
\* filter index lists for both addresses, and never a priority operation.
C15_TwoAccountsPage ==
    TwoAccountsCall =>
        /\ res.ok /\ res.some
        /\ Len(res.page) = Min(res.limit, Cardinality(TwoAccountsTxs))
        /\ \A n \in 1 .. Len(res.page) :
              /\ res.page[n].priority_op_serialid = None
              /\ res.page[n].tx_hash \in { e.tx_hash : e \in TwoAccountsTxs }

\* C18: whatever the sequence of save_executed_tx_filters calls, repeated
\* deliveries of a triple included, no row of the filter index is ever
\* removed, a call succeeds, and after it the index holds the rows it held
\* before and every triple delivered, each once (the rows are keyed by the
\* triple); a delivery of triples that are all present leaves the index as it
\* was.
C18_IdempotentInsert ==
    [][ /\ tx_filters \subseteq tx_filters'
        /\ res'.op = "save_executed_tx_filters" =>
              /\ res'.ok
              /\ res'.filters \subseteq tx_filters'
              /\ tx_filters' = tx_filters \cup res'.filters
              /\ (res'.filters \subseteq tx_filters) => tx_filters' = tx_filters
      ]_vars

\* A delivery of two triples, one already present and one new, has succeeded.
C18_Witness ==
    /\ res.op = "save_executed_tx_filters"
    /\ res.ok
    /\ Cardinality(res.filters) = 2
    /\ Cardinality(tx_filters) = res.count + 1
    /\ res.filters \subseteq tx_filters

\* C19: every stored transaction and priority operation whose block number is
\* not above the watermark last_block_with_updated_tx_filters has a row in the
\* filter index.
C19_WatermarkFullyIndexed ==
    \A e \in AllEntries :
        e.block_number <= last_block_with_updated_tx_filters
            => \E f \in tx_filters : f.tx_hash = e.tx_hash

\* The hashes counted for a call: indexed for the address, and for the second
\* address when there is one, under the token restriction.
Indexed(tx_hash, address, token) ==
    \E f \in tx_filters :
        /\ f.tx_hash = tx_hash
        /\ f.address = address
        /\ token # None => f.token = token[1]

\* C20: get_account_transactions_count is the number of distinct hashes that
\* have a filter entry for the address, with the token when one is given, and
\* also for the second address, with the same token restriction, when a second
\* address is given.
C20_CountOfIndexedHashes ==
    res.op = "get_account_transactions_count" =>
        res.count =
            Cardinality({ h \in { f.tx_hash : f \in tx_filters } :
                            /\ Indexed(h, res.address, res.token)
                            /\ res.second_address # None
                                  => Indexed(h, res.second_address[1], res.token) })

\* A count with a token and a second address that leaves out a hash indexed
\* for the first address.
C20_Witness ==
    /\ res.op = "get_account_transactions_count"
    /\ res.token # None
    /\ res.second_address # None
    /\ res.second_address[1] # res.address
    /\ res.count = 1
    /\ Cardinality({ f.tx_hash : f \in { g \in tx_filters :
                                           g.address = res.address } }) = 2

\* ---------------------------------------------------- properties of the batches
IsInBlockBatch == res.op = "get_in_block_batch_info" /\ res.some

\* The executed transactions that are members of the batch of a hash.
BatchMembers(batch_hash) ==
    { e \in executed_transactions :
        /\ e.batch_id # None
        /\ \E b \in txs_batches_hashes :
              b.batch_id = e.batch_id[1] /\ b.batch_hash = batch_hash }

\* The block the members of a batch share.
BatchBlock(batch_hash) ==
    (CHOOSE e \in BatchMembers(batch_hash) : TRUE).block_number

\* C11: get_in_block_batch_info reports Rejected whenever a member of the batch
\* has success = false, wherever the failed member stands among the members and
\* whether or not the block of the batch is finalized.
C11_RejectedIfAnyMemberFailed ==
    IsInBlockBatch =>
        ((\E e \in BatchMembers(res.id) : ~e.success)
            => res.batch[1].batch_status.last_state = "Rejected")

\* C12: for an included batch whose members all succeeded,
\* get_in_block_batch_info reports Finalized exactly when a confirmed
\* ExecuteBlocks operation covers the block of the batch, and Committed
\* otherwise, also when a covering operation is stored but not confirmed.
C12_FinalizedIffConfirmed ==
    (IsInBlockBatch /\ \A e \in BatchMembers(res.id) : e.success) =>
        res.batch[1].batch_status.last_state =
            IF BatchBlock(res.id) \in aggr_exec THEN "Finalized" ELSE "Committed"

\* The creation timestamp of a batch: that of its earliest member.
BatchCreatedAt(batch_hash) ==
    LET times == { e.created_at : e \in BatchMembers(batch_hash) }
    IN CHOOSE t \in times : \A u \in times : t <= u

\* The timestamp of the ExecuteBlocks operation over the block of a batch.
ExecuteTimestamp(batch_hash) ==
    (CHOOSE o \in OperationsOf("ExecuteBlocks") :
        Between(BatchBlock(batch_hash), o.from_block, o.to_block)).created_at

C14_IncludedElseQueued ==
    res.op = "get_batch_info" =>
        IF BatchMembers(res.id) # {}
        THEN /\ res.batch \in get_in_block_batch_info(res.id)
             /\ res.batch # None
             /\ res.batch[1].batch_status.last_state # "Queued"
        ELSE res.batch = get_queued_batch_info(res.id)

\* An included batch is returned while its transactions are still queued.
C14_Witness ==
    /\ res.op = "get_batch_info"
    /\ BatchMembers(res.id) # {}
    /\ get_queued_batch_info(res.id) # None
    /\ res.batch # None
    /\ res.batch[1].batch_status.last_state \in { "Committed", "Finalized", "Rejected" }
    /\ Len(res.batch[1].transaction_hashes) = Cardinality(BatchMembers(res.id))

\* --------------------------------------------------- properties of the payloads
\* The entries of the fetched page the loop has gone through.
Enriched == 1 .. (enrichment.tx_item - 1)

\* The kind tag of a payload is a string.
Tagged(tx) == tx.type.kind = "str"

\* What enrichment makes of a token field, by the cases of the rule.
TokenRule(before, after) ==
    IF before.kind # "num" THEN after = before
    ELSE IF before.n >= MIN_NFT_TOKEN_ID THEN after = JNum(before.n)
    ELSE IF \E t \in enrichment.tokens : t.id = before.n
    THEN \E t \in enrichment.tokens : t.id = before.n /\ after = JStr(t.symbol)
    ELSE after = JStr("UNKNOWN")

\* The rule applied to the token field of a tagged entry: the field nested in
\* priority_op for Deposit and FullExit, the top-level field for other kinds.
PayloadRule(before, after) ==
    IF before.type.s \in { "Deposit", "FullExit" }
    THEN before.priority_op.present =>
            TokenRule(before.priority_op.token, after.priority_op.token)
    ELSE TokenRule(before.token, after.token)

\* C21: enrichment rewrites the token field of an entry, nested in priority_op
\* for Deposit and FullExit and top-level for every other kind: an id below the
\* NFT threshold becomes its symbol when the token table has one and "UNKNOWN"
\* when it has none, an id at or above the threshold stays the same id.
C21_TokenFieldRewritten ==
    \A n \in Enriched :
        Tagged(enrichment.fetched[n]) =>
            PayloadRule(enrichment.fetched[n], enrichment.tx_history[n])

\* A page has been enriched in which a Deposit got the symbol of its nested
\* token and another entry kept its NFT id.
C21_Witness ==
    /\ enrichment.tx_item = 3
    /\ \E n \in Enriched :
          /\ enrichment.fetched[n].type = JStr("Deposit")
          /\ enrichment.fetched[n].priority_op.token = JNum(0)
          /\ enrichment.tx_history[n].priority_op.token = JStr("ETH")
    /\ \E n \in Enriched :
          /\ enrichment.fetched[n].type = JStr("Transfer")
          /\ enrichment.fetched[n].token = JNum(MIN_NFT_TOKEN_ID)
          /\ enrichment.tx_history[n].token = JNum(MIN_NFT_TOKEN_ID)

\* The kind tags enrichment knows by name or by the payload kinds of the ledger.
KnownKinds ==
    { "Transfer", "Withdraw", "ChangePubKey", "MintNFT", "WithdrawNFT",
      "ForcedExit", "Swap", "Deposit", "FullExit" }

Unrecognized(tx) == ~Tagged(tx) \/ tx.type.s \notin KnownKinds

C25_LookupNeverAborts ==
    (res.op \in { "get_tx_by_hash", "tx_data_api_v02" }) =>
        /\ res.ok
        /\ res.id \in StoredHashes => res.some
        /\ (res.op = "get_tx_by_hash" /\ res.some
              /\ res.receipt[1].tx.from = JNull)
             => res.receipt[1].from = "unknown from"

\* ----------------------------------------------- properties of failing queries
\* The cursor of a get_account_transactions call resolves to a stored entry.
CursorResolves ==
    \/ res.from \in StoredHashes
    \/ res.from = Latest /\ AddressEntries(res.address) # {}

\* The store queries the call of the result has issued.
IssuedQueries ==
    IF res.op = "get_account_transactions"
    THEN (IF res.from = Latest THEN { "get_account_last_tx_hash" } ELSE {})
         \cup (IF res.from # Latest \/ AddressEntries(res.address) # {}
               THEN { "get_tx_created_at_and_block_number" } ELSE {})
         \cup (IF CursorResolves /\ res.second_address = None
               THEN { "get_executed_txs_for_account",
                      "get_priority_operations_for_account",
                      "get_last_verified_confirmed_block" }
               ELSE {})
    ELSE IF res.op = "get_account_transactions_history_from"
    THEN { "fetch_all" }
         \cup (IF \E p \in get_account_transactions_history_from(
                              res.address, res.tx_id, res.direction, res.limit) :
                     Len(p) # 0
               THEN { "load_tokens" } ELSE {})
    ELSE {}

\* C23: when a store query issued by a page operation fails (the cursor
\* resolution, either partition's range query, the read of the last verified
\* block, the token table load), the operation returns an error and no entry.
C23_FailureFailsWholePage ==
    (res.failing \cap IssuedQueries # {}) =>
        (~res.ok /\ ~res.some /\ res.page = << >>)

\* The priority operations query fails after the transactions query has found
\* entries, and the call returns the error.
C23_Witness ==
    /\ res.op = "get_account_transactions"
    /\ res.failing = { "get_priority_operations_for_account" }
    /\ CursorResolves
    /\ \E e \in executed_transactions : e.tx_hash \in tx_hashes(res.address)
    /\ ~res.ok
    /\ res.page = << >>

\* ------------------------------------------------------ properties of lookups
\* No stored record matches the identifier of the lookup of the result.
NoMatchingRecord ==
    CASE res.op = "tx_receipt" ->
           \A e \in executed_transactions : e.tx_hash # res.id
      [] res.op \in { "get_tx_by_hash", "get_tx_created_at_and_block_number" } ->
           res.id \notin StoredHashes
      [] res.op = "get_priority_op_receipt" ->
           \A e \in executed_priority_operations : e.priority_op_serialid # res.id
      [] res.op = "get_batch_info" ->
           \A b \in { x \in txs_batches_hashes : x.batch_hash = res.id } :
              /\ \A e \in executed_transactions : e.batch_id # Some(b.batch_id)
              /\ \A m \in mempool_txs : m.batch_id # b.batch_id
      [] OTHER -> FALSE

\* C24: a lookup by an identifier that matches no stored record returns the
\* absent result (get_priority_op_receipt: committed = false, verified =
\* false) and no error.
C24_NoRecordIsAbsent ==
    NoMatchingRecord =>
        /\ res.ok
        /\ IF res.op = "get_priority_op_receipt"
           THEN res.receipt = Some([ committed |-> FALSE, verified |-> FALSE ])
           ELSE ~res.some /\ res.receipt = None /\ res.batch = None

\* The receipt of a priority operation that is not stored is asked for while
\* another one is stored.
C24_Witness ==
    /\ res.op = "get_priority_op_receipt"
    /\ NoMatchingRecord
    /\ executed_priority_operations # {}
    /\ res.receipt = Some([ committed |-> FALSE, verified |-> FALSE ])

\* ------------------------------------------------ properties of offset paging
\* The page at offset = limit has been returned after the page at offset 0.
SecondPageReturned ==
    /\ pinned.set
    /\ res.op = "get_account_transactions_history"
    /\ res.address = pinned.address
    /\ res.offset = pinned.limit

\* The second page holds an entry of the first page.
RepeatsFirstPage ==
    \E first \in pinned.pages :
       \E i \in 1 .. Len(first), j \in 1 .. Len(res.page) :
          first[i].hash = res.page[j].hash

\* The history of the address has grown since the first page was returned.
AppendedBetween == HistoryLength(pinned.address) > pinned.hashes

\* The entries of the history of the address lie in different blocks, so
\* that ORDER BY block_number puts them in one order only.
OneEntryPerBlock ==
    \A page \in get_account_transactions_history(
                    pinned.address, 0, Cardinality(AllEntries) + 1) :
       \A i, j \in 1 .. Len(page) :
          i # j => page[i].block_number # page[j].block_number

\* C26: paging by offset is not stable under appends: the page at offset =
\* limit repeats an entry of the page at offset 0 in some interleaving (the
\* witness), and over a history that has one order only it does so only when
\* the history of the address grew between the two calls.
C26_RepeatOnlyAfterAppend ==
    (SecondPageReturned /\ RepeatsFirstPage /\ OneEntryPerBlock) => AppendedBetween

\* An entry stored between the two calls makes the second page repeat an
\* entry of the first page.
C26_Witness ==
    /\ SecondPageReturned
    /\ RepeatsFirstPage
    /\ OneEntryPerBlock
    /\ AppendedBetween
    /\ MaxStoredBlock > pinned.max_block

\* ------------------------------------------------- properties of Newer pages
\* The order keys of the entries of the address strictly above the cursor.
KeysAboveCursor ==
    { r.tx_id : r \in { x \in AllRows(res.address) : KeyLess(res.tx_id, x.tx_id) } }

\* C27 as stated: when more than `limit` entries lie above the cursor, a Newer
\* page of get_account_transactions_history_from holds the `limit` entries
\* with the smallest order keys above the cursor.
C27_NewerPageSmallestKeys ==
    (/\ IsHistoryFrom
     /\ res.direction = "Newer"
     /\ Cardinality(KeysAboveCursor) > res.limit)
    => { res.page[n].tx_id : n \in 1 .. Len(res.page) }
         = { k \in KeysAboveCursor :
               Cardinality({ j \in KeysAboveCursor : KeyLess(j, k) }) < res.limit }

\* --------------------------------------- properties of finality across reads
\* The three read paths report the same finality for a stored entry now.
PathsAgree(e) ==
    /\ ReceiptVerified(e) = HistoryVerified(e)
    /\ HistoryVerified(e) = TxsFinalized(e)

WholeHistoryHashes(address) ==
    UNION { { page[n].hash : n \in 1 .. Len(page) }
          : page \in get_account_transactions_history(
                         address, 0, Cardinality(AllEntries) + 1) }

\* C29 as stated: get_account_transactions_count(address, None, None) is the
\* number of distinct entries of the whole history of the address as
\* get_account_transactions_history returns it.
C29_CountIsHistorySize ==
    (/\ res.op = "get_account_transactions_count"
     /\ res.token = None
     /\ res.second_address = None)
    => res.count = Cardinality(WholeHistoryHashes(res.address))

\* ------------------------------------------------ properties of batch members
\* The executed transactions stored with the batch id bound to the hash of
\* the last get_in_block_batch_info.
BoundMembers ==
    { e \in executed_transactions :
        /\ e.batch_id # None
        /\ \E b \in txs_batches_hashes :
              b.batch_hash = res.id /\ b.batch_id = e.batch_id[1] }

\* C30 as stated: get_in_block_batch_info lists exactly the executed
\* transactions stored with the batch id bound to the hash, each once, in
\* ascending (created_at, block_index) order; a transaction stored with no
\* batch id is listed in no batch, whatever ids the stored batches have.
C30_MembersExactlyBound ==
    res.op = "get_in_block_batch_info" =>
        IF BoundMembers = {}
        THEN res.batch = None
        ELSE /\ res.batch # None
             /\ LET hashes == res.batch[1].transaction_hashes
                IN /\ Len(hashes) = Cardinality(BoundMembers)
                   /\ Range(hashes) = { e.tx_hash : e \in BoundMembers }
                   /\ \A n \in 1 .. (Len(hashes) - 1) :
                         LET e1 == EntryOf(hashes[n])
                             e2 == EntryOf(hashes[n + 1])
                         IN \/ e1.created_at < e2.created_at
                            \/ /\ e1.created_at = e2.created_at
                               /\ e1.block_index <= e2.block_index

====
